---- MODULE Spec2Model ----
(***************************************************************************)
(* pgcopydb: the schema dump/restore driver (dump_restore.c) and the live  *)
(* replay applier (ld_replay.c), as state machines.                        *)
(*                                                                         *)
(* SpecSchema : repeated invocations of copydb_dump_source_schema,         *)
(*              copydb_target_prepare_schema, copydb_target_finalize_schema*)
(*              over one persistent work directory and one target database.*)
(* SpecReplay : stream_apply_replay reading a stream of transformed lines, *)
(*              applying them on the target and keeping the sentinel row   *)
(*              of the source up to date; one run.                         *)
(* SpecReplayTwice : the same stream replayed a second time on the target  *)
(*              the first replay left.                                     *)
(* SpecReplayLive : the applier under fairness, for its termination.       *)
(* SpecExt    : copydb_start_extension_data_process and                    *)
(*              copydb_copy_extensions (extensions.c) over every catalog.  *)
(* SpecList, SpecDrop, SpecRestart : the schema driver over every archive, *)
(*              every configuration, and killed between two steps.         *)
(***************************************************************************)
EXTENDS Integers, Sequences, FiniteSets, TLC

VARIABLES
    \* ---- work directory and target, schema driver ----
    done,        \* set of done-marker files present (cfPaths.done.*)
    dumpFiles,   \* archive files present: subset of {"pre", "post"}
    listFiles,   \* [pre, post] -> include-list file contents, or NoFile
    idxDone,     \* object oids having an index/constraint done-marker
    archive,     \* [pre, post] -> entry list of the dump file's archive
    tgtTables,   \* tables present on the target database
    tgtSchemas,  \* namespaces created on the target by CREATE SCHEMA
    tgtRestored, \* sections restored on the target by pg_restore
    everOK,      \* units whose external dumper/restorer has returned success
    call,        \* what the most recent handler invocation did
    \* ---- live replay ----
    pc,          \* position of stream_apply_replay
    ret,         \* its return value: "none" while running
    context,     \* StreamApplyContext
    stop,        \* the reader's *stop flag
    now,         \* time(NULL), in seconds
    srcPending,  \* asynchronous sentinel queries outstanding on context->src
    cursor,      \* the line of the input stream read last
    source,      \* the source's transactions by commit LSN, and their rows
    target,      \* the target database: open transaction, rows, origin
    run,         \* bookkeeping about the current run
    \* ---- extensions ----
    extensions   \* the catalog's extensions, the copier process, its work

schemaVars == <<done, dumpFiles, listFiles, idxDone, archive, tgtTables,
                tgtSchemas, tgtRestored, everOK, call>>

replayVars == <<pc, ret, context, stop, now, srcPending, cursor, source,
                target, run>>

extVars == <<extensions>>

vars == <<done, dumpFiles, listFiles, idxDone, archive, tgtTables,
          tgtSchemas, tgtRestored, everOK, call,
          pc, ret, context, stop, now, srcPending, cursor, source, target,
          run, extensions>>

----------------------------------------------------------------------------
(* Work directory vocabulary                                               *)

Units == {"preDataDump", "postDataDump", "preDataRestore", "postDataRestore"}

\* the contents standing for a file that does not exist
NoFile == << [commented |-> FALSE, dumpId |-> 0, objectOid |-> 0,
              desc |-> "absent"] >>

\* PostgresDumpSection values a caller can pass
Sections == {"schema", "pre-data", "post-data", "all", "data"}

\* the archive entries of the run's dump files, as (dumpId, objectOid,
\* desc); oids 11 and 12 are indexes of the post-data section, oid 2 is a
\* table excluded by the filters and oid 13 an index of that table
RunArchive ==
    [pre  |-> << [dumpId |-> 1, objectOid |-> 1, desc |-> "TABLE"],
                 [dumpId |-> 2, objectOid |-> 2, desc |-> "TABLE"] >>,
     post |-> << [dumpId |-> 3, objectOid |-> 11, desc |-> "INDEX"],
                 [dumpId |-> 4, objectOid |-> 12, desc |-> "CONSTRAINT"] >>]

\* the archive entry list pg_restore --list returns for each dump file
ArchiveContents(section) == archive[section]

IndexOids == {11, 12}

\* copydb_objectid_is_filtered_out, for the filters of the run
FilteredOutOids == {2, 13}

\* the tables of the run, and one table the run does not own
RunTables == {"t1", "t2"}
StaleTables == {"t1", "t2", "t3"}

\* outcomes of an external dumper or restorer call
DumpOutcomes == {"ok", "fail", "partial"}

\* outcomes of copydb_write_restore_list's two fallible steps
ListOutcomes == {"ok", "listfail", "writefail"}

\* outcomes of building and executing one SQL statement on the target
SqlOutcomes == {"ok", "oom", "noconn", "execfail"}

\* the CopyDataSpec of a run without --drop-if-exists, tables or filters
PlainConfig == [dropIfExists |-> FALSE, tableArray |-> <<>>,
                includeOnlySchemaList |-> <<>>]

NoCall == [fn |-> "none", entry |-> {}, ret |-> TRUE, unitRet |-> <<>>,
           ran |-> {}, toolFailed |-> {}, writeFailed |-> {}, sql |-> <<>>,
           cfg |-> PlainConfig, killed |-> FALSE]

\* the state a handler works on, as one record
World == [done |-> done, dumpFiles |-> dumpFiles, listFiles |-> listFiles,
          tgtTables |-> tgtTables, tgtSchemas |-> tgtSchemas,
          tgtRestored |-> tgtRestored, everOK |-> everOK,
          call |-> [NoCall EXCEPT !.entry = done]]

----------------------------------------------------------------------------
(* dump_restore.c                                                          *)

\* copydb_objectid_has_been_processed_already
copydb_objectid_has_been_processed_already(oid) == oid \in idxDone

\* the call log: unit u finished with result ok
UnitRet(w, u, ok) ==
    [w EXCEPT !.call.unitRet = Append(@, <<u, ok>>)]

\* a variant in which a failed write takes the marker away
WriteDoneFileUnlinks(w, u, writeOK) ==
    IF writeOK
    THEN [w EXCEPT !.done = @ \cup {u}]
    ELSE [w EXCEPT !.done = @ \ {u}, !.call.writeFailed = @ \cup {u}]

\* write_file("", 0, doneFile): the marker is created when the write succeeds
WriteDoneFile(w, u, writeOK) ==
    IF writeOK
    THEN [w EXCEPT !.done = @ \cup {u}]
    ELSE [w EXCEPT !.call.writeFailed = @ \cup {u}]

\* pg_dump_db: on success the archive file exists; a failed dump may leave
\* a partial archive file behind
pg_dump_db(w, u, file, outcome) ==
    LET w1 == [w EXCEPT !.call.ran = @ \cup {u}]
    IN  CASE outcome = "ok" ->
               [w1 EXCEPT !.dumpFiles = @ \cup {file}, !.everOK = @ \cup {u}]
          [] outcome = "partial" ->
               [w1 EXCEPT !.dumpFiles = @ \cup {file},
                          !.call.toolFailed = @ \cup {u}]
          [] OTHER ->
               [w1 EXCEPT !.call.toolFailed = @ \cup {u}]

\* a variant that falls through to the marker write after a failed pg_dump
DumpUnitNoReturn(w, u, file, outcome, writeOK) ==
    LET w1 == IF u \in w.done THEN w ELSE pg_dump_db(w, u, file, outcome)
        w2 == WriteDoneFile(w1, u, writeOK)
    IN  [w |-> UnitRet(w2, u, writeOK), ok |-> writeOK]

\* one section block of copydb_dump_source_schema
DumpUnit(w, u, file, outcome, writeOK) ==
    IF u \in w.done
    THEN \* skipping pg_dump, then the marker is written again
         LET w2 == WriteDoneFile(w, u, writeOK)
         IN  [w |-> UnitRet(w2, u, writeOK), ok |-> writeOK]
    ELSE LET w1 == pg_dump_db(w, u, file, outcome)
         IN  IF outcome # "ok"
             THEN [w |-> UnitRet(w1, u, FALSE), ok |-> FALSE]
             ELSE LET w2 == WriteDoneFile(w1, u, writeOK)
                  IN  [w |-> UnitRet(w2, u, writeOK), ok |-> writeOK]

\* copydb_dump_source_schema(specs, snapshot, section)
copydb_dump_source_schema(w, section, o) ==
    LET r1 == IF section \in {"schema", "pre-data", "all"}
              THEN DumpUnit(w, "preDataDump", "pre", o.dumpPre, o.writePre)
              ELSE [w |-> w, ok |-> TRUE]
    IN  IF ~r1.ok
        THEN [r1.w EXCEPT !.call.ret = FALSE]
        ELSE LET r2 == IF section \in {"schema", "post-data", "all"}
                       THEN DumpUnit(r1.w, "postDataDump", "post",
                                     o.dumpPost, o.writePost)
                       ELSE [w |-> r1.w, ok |-> TRUE]
             IN  [r2.w EXCEPT !.call.ret = r2.ok]

\* a variant that comments out the filtered-out entries only
RestoreListLinesFiltersOnly(contents) ==
    [i \in 1..Len(contents) |->
        [commented |-> contents[i].objectOid \in FilteredOutOids,
         dumpId |-> contents[i].dumpId,
         objectOid |-> contents[i].objectOid,
         desc |-> contents[i].desc]]

\* the include-list lines for an archive: one per entry, commented out when
\* the object was processed already or is filtered out
RestoreListLines(contents) ==
    [i \in 1..Len(contents) |->
        [commented |->
            (copydb_objectid_has_been_processed_already(contents[i].objectOid)
             \/ contents[i].objectOid \in FilteredOutOids),
         dumpId |-> contents[i].dumpId,
         objectOid |-> contents[i].objectOid,
         desc |-> contents[i].desc]]

\* copydb_write_restore_list(specs, section)
copydb_write_restore_list(w, section, outcome) ==
    IF section \notin {"pre", "post"}
    THEN [w |-> w, ok |-> FALSE]
    ELSE IF outcome = "listfail"
    THEN [w |-> w, ok |-> FALSE]
    ELSE IF outcome = "writefail"
    THEN [w |-> [w EXCEPT !.call.writeFailed = @ \cup {section}],
          ok |-> FALSE]
    ELSE [w |-> [w EXCEPT !.listFiles[section] =
                              RestoreListLines(ArchiveContents(section))],
          ok |-> TRUE]

\* a variant that drops the tables one statement at a time
DropTablesOneByOne(w, tableArray, outcome) ==
    IF Len(tableArray) = 0
    THEN [w |-> w, ok |-> TRUE]
    ELSE IF outcome \in {"oom", "noconn"}
    THEN [w |-> w, ok |-> FALSE]
    ELSE LET stmts == [i \in 1..Len(tableArray) |->
                         [stmt |-> "DROP TABLE IF EXISTS",
                          names |-> <<tableArray[i]>>,
                          ok |-> (outcome = "ok")]]
             w1 == [w EXCEPT !.call.sql = @ \o stmts]
         IN  IF outcome = "ok"
             THEN [w |-> [w1 EXCEPT !.tgtTables =
                            @ \ {tableArray[i] : i \in 1..Len(tableArray)}],
                   ok |-> TRUE]
             ELSE [w |-> w1, ok |-> FALSE]

\* copydb_target_drop_tables(specs): one DROP TABLE IF EXISTS ... CASCADE
\* naming every table of the source table array
copydb_target_drop_tables(w, tableArray, outcome) ==
    IF Len(tableArray) = 0
    THEN [w |-> w, ok |-> TRUE]
    ELSE IF outcome \in {"oom", "noconn"}
    THEN [w |-> w, ok |-> FALSE]
    ELSE LET stmt == [stmt |-> "DROP TABLE IF EXISTS", names |-> tableArray,
                      ok |-> (outcome = "ok")]
             w1 == [w EXCEPT !.call.sql = Append(@, stmt)]
         IN  IF outcome = "ok"
             THEN [w |-> [w1 EXCEPT !.tgtTables =
                            @ \ {tableArray[i] : i \in 1..Len(tableArray)}],
                   ok |-> TRUE]
             ELSE [w |-> w1, ok |-> FALSE]

\* copydb_target_prepare_namespaces(specs): CREATE SCHEMA IF NOT EXISTS for
\* every schema of the inclusion filter, sent as one query
copydb_target_prepare_namespaces(w, schemaList, outcome) ==
    IF outcome \in {"oom", "noconn"}
    THEN [w |-> w, ok |-> FALSE]
    ELSE LET stmt == [stmt |-> "CREATE SCHEMA IF NOT EXISTS",
                      names |-> schemaList, ok |-> (outcome = "ok")]
             w1 == [w EXCEPT !.call.sql = Append(@, stmt)]
         IN  IF outcome = "ok"
             THEN [w |-> [w1 EXCEPT !.tgtSchemas =
                            @ \cup {schemaList[i] : i \in 1..Len(schemaList)}],
                   ok |-> TRUE]
             ELSE [w |-> w1, ok |-> FALSE]

\* pg_restore_db: on success the section is restored on the target; a failed
\* restore may have created part of the objects
pg_restore_db(w, u, section, outcome) ==
    LET w1 == [w EXCEPT !.call.ran = @ \cup {u}]
        made == IF section = "pre" THEN RunTables ELSE {}
        part == IF section = "pre" THEN {"t1"} ELSE {}
    IN  CASE outcome = "ok" ->
               [w1 EXCEPT !.tgtRestored = @ \cup {section},
                          !.tgtTables = @ \cup made,
                          !.everOK = @ \cup {u}]
          [] outcome = "partial" ->
               [w1 EXCEPT !.tgtTables = @ \cup part,
                          !.call.toolFailed = @ \cup {u}]
          [] OTHER ->
               [w1 EXCEPT !.call.toolFailed = @ \cup {u}]

\* how a handler returns: the unit's result and the function's result
Return(w, u, ok) ==
    [UnitRet(w, u, ok) EXCEPT !.call.ret = ok]

\* a variant that writes the done-marker first and restores after
RestoreAndMarkEarly(w, u, section, o) ==
    LET w1 == WriteDoneFile(w, u, o.write)
    IN  IF ~o.write
        THEN Return(w1, u, FALSE)
        ELSE Return(pg_restore_db(w1, u, section, o.restore), u,
                    o.restore = "ok")

\* the tail shared by copydb_target_prepare_schema and
\* copydb_target_finalize_schema: pg_restore_db, then the done-marker
RestoreAndMark(w, u, section, o) ==
    LET w1 == pg_restore_db(w, u, section, o.restore)
    IN  IF o.restore # "ok"
        THEN Return(w1, u, FALSE)
        ELSE Return(WriteDoneFile(w1, u, o.write), u, o.write)

\* copydb_target_prepare_schema, once the pre-data restore is known not to
\* be done: include-list, DROP TABLE, CREATE SCHEMA, pg_restore, marker
PrepareSchemaWork(w, cfg, o) ==
    LET u == "preDataRestore"
        l == copydb_write_restore_list(w, "pre", o.list)
    IN
    IF ~l.ok THEN Return(l.w, u, TRUE)
    ELSE
    LET d == IF cfg.dropIfExists
             THEN copydb_target_drop_tables(l.w, cfg.tableArray, o.drop)
             ELSE [w |-> l.w, ok |-> TRUE]
    IN
    IF ~d.ok THEN Return(d.w, u, FALSE)
    ELSE
    LET n == IF Len(cfg.includeOnlySchemaList) > 0
             THEN copydb_target_prepare_namespaces(
                      d.w, cfg.includeOnlySchemaList, o.ns)
             ELSE [w |-> d.w, ok |-> TRUE]
    IN
    IF ~n.ok THEN Return(n.w, u, FALSE)
    ELSE RestoreAndMark(n.w, u, "pre", o)

\* a variant that does not look at the pre-data-restore done-marker
PrepareSchemaNoSkip(w, cfg, o) ==
    IF "pre" \notin w.dumpFiles
    THEN Return(w, "preDataRestore", FALSE)
    ELSE PrepareSchemaWork(w, cfg, o)

\* copydb_target_prepare_schema(specs)
copydb_target_prepare_schema(w, cfg, o) ==
    IF "pre" \notin w.dumpFiles
    THEN Return(w, "preDataRestore", FALSE)
    ELSE IF "preDataRestore" \in w.done
    THEN Return(w, "preDataRestore", TRUE)
    ELSE PrepareSchemaWork(w, cfg, o)

\* copydb_target_finalize_schema(specs)
copydb_target_finalize_schema(w, o) ==
    LET u == "postDataRestore"
    IN
    IF "post" \notin w.dumpFiles THEN Return(w, u, FALSE)
    ELSE IF u \in w.done THEN Return(w, u, TRUE)
    ELSE
    LET l == copydb_write_restore_list(w, "post", o.list)
    IN
    IF ~l.ok THEN Return(l.w, u, TRUE)
    ELSE RestoreAndMark(l.w, u, "post", o)

----------------------------------------------------------------------------
(* The schema driver as a state machine                                    *)

\* StreamApplyContext ctx = { 0 }
ZeroContext ==
    [apply |-> FALSE, endpos |-> 0, previousLSN |-> 0, replay_lsn |-> 0,
     reachedStartPos |-> FALSE, reachedEndPos |-> FALSE,
     sentinelQueryInProgress |-> FALSE, sentinelSyncTime |-> 0]

\* LSNs are 1..MaxLSN; 0 is InvalidXLogRecPtr
MaxLSN == 2

NoLine == [action |-> "NONE", lsn |-> 0, k |-> 0, ins |-> 0]

\* what is remembered of an earlier replay of the same stream: its result,
\* the keepalive lines it read, which line was the last and whether the
\* stream ended there, and the target as it left it
NoFirst == [ret |-> "none", eof |-> FALSE, last |-> NoLine, file |-> {},
            rows |-> [c \in 1..MaxLSN |-> 0], commits |-> <<>>,
            origin |-> 0]

NoRun == [slotLSN |-> 0, finalSyncs |-> 0, early |-> FALSE, read |-> FALSE,
          sendTime |-> -1, sends |-> 0, endposChanged |-> FALSE, reduced |-> FALSE,
          atCheck |-> [endpos |-> 0, previousLSN |-> 0,
                       reachedEndPos |-> FALSE],
          drained |-> FALSE, syncResult |-> "none",
          atSync |-> [inProgress |-> FALSE, pending |-> 0, open |-> 0],
          keep |-> FALSE, file |-> {}, replays |-> 0, first |-> NoFirst]

\* the bookkeeping is about a single replay of a stream; when the stream
\* is to be replayed again its keepalives are remembered instead
Noted(r) == IF run.replays = 0 /\ ~run.keep THEN r ELSE run
Filed(r, line) ==
    IF run.keep /\ line.action = "KEEPALIVE"
    THEN [r EXCEPT !.file = @ \cup {line}]
    ELSE r

\* no applier is running
ReplayIdle ==
    /\ pc = "idle"
    /\ ret = "none"
    /\ context = ZeroContext
    /\ stop = FALSE
    /\ now = 0
    /\ srcPending = 0
    /\ cursor = NoLine
    /\ source = [txns |-> {}, rows |-> [c \in 1..MaxLSN |-> 0]]
    /\ target = [open |-> 0, pending |-> 0, rows |-> [c \in 1..MaxLSN |-> 0],
                 commits |-> <<>>, origin |-> 0]
    /\ run = NoRun

\* no call of copydb_copy_extensions has been made
NoCopy == [by |-> "none", createExtensions |-> FALSE, ok |-> FALSE,
           finished |-> FALSE, errors |-> 0, sql |-> <<>>,
           o |-> [init |-> TRUE, createFail |-> {}, copyFail |-> 0]]

\* no extension-data process has been asked for
NoExtensions == [catalog |-> <<>>, skipExtensions |-> FALSE, ret |-> "none",
                 fork |-> "none", child |-> "none", atReturn |-> "none",
                 exitCode |-> "none", copy |-> NoCopy]

ExtIdle == extensions = NoExtensions

\* the handler's resulting world becomes the next state
Becomes(w, fn) ==
    /\ done' = w.done
    /\ dumpFiles' = w.dumpFiles
    /\ listFiles' = w.listFiles
    /\ tgtTables' = w.tgtTables
    /\ tgtSchemas' = w.tgtSchemas
    /\ tgtRestored' = w.tgtRestored
    /\ everOK' = w.everOK
    /\ call' = [w.call EXCEPT !.fn = fn]
    /\ UNCHANGED <<idxDone, archive>>
    /\ UNCHANGED <<replayVars, extVars>>

\* The outcomes of the fallible steps of one invocation.  A handler returns
\* at its first failing step, so the steps after it have no outcome: they
\* are listed as "ok" to keep one input per distinct execution.
DumpInputs ==
    {o \in [dumpPre : DumpOutcomes, writePre : BOOLEAN,
            dumpPost : DumpOutcomes, writePost : BOOLEAN] :
        /\ o.dumpPre # "ok" => o.writePre
        /\ (o.dumpPre # "ok" \/ ~o.writePre)
              => (o.dumpPost = "ok" /\ o.writePost)
        /\ o.dumpPost # "ok" => o.writePost}

RestoreInputs ==
    {o \in [list : ListOutcomes, drop : SqlOutcomes, ns : SqlOutcomes,
            restore : DumpOutcomes, write : BOOLEAN] :
        /\ o.list # "ok" => (o.drop = "ok" /\ o.ns = "ok")
        /\ o.drop # "ok" => o.ns = "ok"
        /\ (o.list # "ok" \/ o.drop # "ok" \/ o.ns # "ok")
              => o.restore = "ok"
        /\ o.restore # "ok" => o.write}

\* CopyDataSpec fields the pre-data restore reads
RestoreConfigs == [dropIfExists : BOOLEAN,
                   tableArray : {<<>>, <<"t1", "t2">>},
                   includeOnlySchemaList : {<<>>, <<"s1">>}]

DumpSourceSchema ==
    \E section \in Sections, o \in DumpInputs :
        Becomes(copydb_dump_source_schema(World, section, o), "dump")

TargetPrepareSchema ==
    \E cfg \in RestoreConfigs, o \in RestoreInputs :
        /\ (~cfg.dropIfExists \/ Len(cfg.tableArray) = 0) => o.drop = "ok"
        /\ Len(cfg.includeOnlySchemaList) = 0 => o.ns = "ok"
        /\ Becomes(copydb_target_prepare_schema(World, cfg, o), "prepare")

TargetFinalizeSchema ==
    \E o \in RestoreInputs :
        /\ o.drop = "ok" /\ o.ns = "ok"
        /\ Becomes(copydb_target_finalize_schema(World, o), "finalize")

\* the index builder finishes an index or constraint of a restored table
\* and writes its <oid>.done marker
IndexBuilt ==
    /\ "pre" \in tgtRestored
    /\ \E oid \in IndexOids \ idxDone : idxDone' = idxDone \cup {oid}
    /\ UNCHANGED <<done, dumpFiles, listFiles, archive, tgtTables,
                   tgtSchemas, tgtRestored, everOK, call>>
    /\ UNCHANGED <<replayVars, extVars>>

InitSchema ==
    /\ done = {}
    /\ dumpFiles = {}
    /\ listFiles = [pre |-> NoFile, post |-> NoFile]
    /\ idxDone = {}
    /\ archive = RunArchive
    /\ tgtTables = StaleTables
    /\ tgtSchemas = {}
    /\ tgtRestored = {}
    /\ everOK = {}
    /\ call = NoCall
    /\ ReplayIdle
    /\ ExtIdle

NextSchema ==
    \/ DumpSourceSchema
    \/ TargetPrepareSchema
    \/ TargetFinalizeSchema
    \/ IndexBuilt

SpecSchema == InitSchema /\ [][NextSchema]_vars

----------------------------------------------------------------------------
(* Properties of the schema driver                                         *)

DumpUnits == {"preDataDump", "postDataDump"}
RestoreUnits == {"preDataRestore", "postDataRestore"}

\* the archive file a restore unit reads
ArchiveOf(u) == IF u = "preDataRestore" THEN "pre" ELSE "post"

\* the units the most recent invocation entered, with their results
EnteredUnits == {call.unitRet[i][1] : i \in 1..Len(call.unitRet)}
UnitResult(u) ==
    LET i == CHOOSE j \in 1..Len(call.unitRet) : call.unitRet[j][1] = u
    IN  call.unitRet[i][2]

\* C1: a done-marker exists only if the external dumper/restorer of its
\* unit has returned success, in this invocation or an earlier one, and a
\* unit whose dumper/restorer call failed in the most recent invocation has
\* no marker.
C1_MarkerOnlyAfterSuccess ==
    /\ \A u \in Units : u \in done => u \in everOK
    /\ \A u \in call.toolFailed : u \notin done

\* C1 witness: one invocation dumped pre-data and wrote its marker, then
\* failed to dump post-data, whose marker is absent.
C1_Witness ==
    /\ call.fn = "dump"
    /\ "preDataDump" \in call.ran /\ "preDataDump" \in done
    /\ "postDataDump" \in call.toolFailed /\ "postDataDump" \notin done

\* a unit entered with its marker present runs no external tool and sends
\* no statement to the target
SkipsTheWork(u) ==
    /\ u \notin call.ran
    /\ u \in RestoreUnits => call.sql = <<>>

\* C2 as stated: a unit entered with its done-marker present invokes no
\* dumper/restorer, sends no DROP or CREATE SCHEMA statement, and reports
\* success.
C2_SkipReportsSuccess ==
    \A u \in EnteredUnits :
        u \in call.entry => (SkipsTheWork(u) /\ UnitResult(u) = TRUE)

\* C2 amended: a unit entered with its done-marker present invokes no
\* dumper/restorer and sends no DROP or CREATE SCHEMA statement; a restore
\* unit whose archive file is present reports success; a dump unit writes
\* its marker again and reports success exactly when that write succeeds.
C2_SkipFinishedWork ==
    \A u \in EnteredUnits :
        u \in call.entry =>
            /\ SkipsTheWork(u)
            /\ (u \in RestoreUnits /\ ArchiveOf(u) \in dumpFiles)
                  => UnitResult(u) = TRUE
            /\ u \in DumpUnits
                  => (UnitResult(u) = TRUE <=> u \notin call.writeFailed)

\* C2 witness: the pre-data restore was entered with its marker present,
\* and in the same state a dump unit is also marked done.
C2_Witness ==
    /\ call.fn = "prepare"
    /\ "preDataRestore" \in call.entry
    /\ call.ret = TRUE
    /\ "postDataDump" \in done

\* C3 as stated: when writing the include-list or a done-marker fails the
\* handler reports failure, and a restore handler does not report success
\* for a unit whose restorer has never run.
C3_WriteFailureIsFatal ==
    /\ call.writeFailed # {} => call.ret = FALSE
    /\ \A u \in EnteredUnits \cap RestoreUnits :
          UnitResult(u) = TRUE => u \in everOK

\* C16: done-markers are create-only: whatever dump, include-list and
\* restore operations run, in whatever order and with whatever failures,
\* no step takes a done-marker away; the set of markers only grows.
C16_MarkersNeverShrink ==
    [][done \subseteq done']_vars

\* a unit whose marker was there has been entered again, and the write of
\* its marker failed this time: the marker is still there
C16_Witness ==
    /\ done # {}
    /\ call.writeFailed \cap done # {}
    /\ call.ret = FALSE

----------------------------------------------------------------------------
(* The include-list, over every archive                                    *)

\* entries an archive lists at most
MaxEntries == 2

PreEntries == {RunArchive.pre[i] : i \in 1..Len(RunArchive.pre)}
PostEntries ==
    {RunArchive.post[i] : i \in 1..Len(RunArchive.post)}
    \cup {[dumpId |-> 5, objectOid |-> 13, desc |-> "INDEX"]}

SeqsUpTo(S, n) == UNION {[1..k -> S] : k \in 0..n}

\* the archives pg_dump can have written
Archives == [pre : SeqsUpTo(PreEntries, MaxEntries),
             post : SeqsUpTo(PostEntries, MaxEntries)]

\* both sections are dumped, nothing is restored yet
InitList ==
    /\ done = DumpUnits
    /\ dumpFiles = {"pre", "post"}
    /\ listFiles = [pre |-> NoFile, post |-> NoFile]
    /\ idxDone = {}
    /\ archive \in Archives
    /\ tgtTables = StaleTables
    /\ tgtSchemas = {}
    /\ tgtRestored = {}
    /\ everOK = DumpUnits
    /\ call = NoCall
    /\ ReplayIdle
    /\ ExtIdle

\* copydb_target_prepare_schema in a run without --drop-if-exists and
\* without schema filters
ListPrepareSchema ==
    \E o \in RestoreInputs :
        /\ o.drop = "ok" /\ o.ns = "ok"
        /\ Becomes(copydb_target_prepare_schema(World, PlainConfig, o),
                   "prepare")

NextList ==
    \/ ListPrepareSchema
    \/ TargetFinalizeSchema
    \/ IndexBuilt

SpecList == InitList /\ [][NextList]_vars

\* the include-list has one line per entry of the archive, in its order,
\* commented exactly for the marked and the filtered-out object oids
ListMatches(list, contents, marked) ==
    /\ Len(list) = Len(contents)
    /\ \A i \in 1..Len(contents) :
         /\ list[i].dumpId = contents[i].dumpId
         /\ list[i].objectOid = contents[i].objectOid
         /\ list[i].desc = contents[i].desc
         /\ list[i].commented <=>
              (contents[i].objectOid \in marked
               \/ contents[i].objectOid \in FilteredOutOids)

\* C11: whenever copydb_write_restore_list writes an include-list, the
\* list has exactly one line per entry of the archive, in the archive's
\* order, and a line is commented out if and only if the entry's object
\* oid has an index done-marker or is filtered out.
C11_RestoreListComments ==
    [][\A s \in {"pre", "post"} :
          listFiles'[s] # listFiles[s] =>
              ListMatches(listFiles'[s], archive[s], idxDone)]_vars

\* a post-data list with a line commented for a built index and a line
\* left uncommented
C11_Witness ==
    /\ call.fn = "finalize"
    /\ listFiles.post # NoFile
    /\ \E i, j \in 1..Len(listFiles.post) :
         /\ listFiles.post[i].commented
         /\ listFiles.post[i].objectOid \in idxDone
         /\ ~listFiles.post[j].commented
         /\ listFiles.post[j].objectOid \in IndexOids

----------------------------------------------------------------------------
(* The pre-data restore under every configuration                          *)

\* copydb_target_prepare_schema, the run's configuration kept with the call
DropPrepareSchema ==
    \E cfg \in RestoreConfigs, o \in RestoreInputs :
        /\ (~cfg.dropIfExists \/ Len(cfg.tableArray) = 0) => o.drop = "ok"
        /\ Len(cfg.includeOnlySchemaList) = 0 => o.ns = "ok"
        /\ LET r == copydb_target_prepare_schema(World, cfg, o)
           IN  Becomes([r EXCEPT !.call.cfg = cfg], "prepare")

\* both sections are dumped, the target holds tables of an earlier attempt
InitDrop ==
    /\ done = DumpUnits
    /\ dumpFiles = {"pre", "post"}
    /\ listFiles = [pre |-> NoFile, post |-> NoFile]
    /\ idxDone = {}
    /\ archive = RunArchive
    /\ tgtTables \in {StaleTables, {"t3"}}
    /\ tgtSchemas = {}
    /\ tgtRestored = {}
    /\ everOK = DumpUnits
    /\ call = NoCall
    /\ ReplayIdle
    /\ ExtIdle

NextDrop ==
    \/ DropPrepareSchema
    \/ TargetFinalizeSchema

SpecDrop == InitDrop /\ [][NextDrop]_vars

\* the DROP TABLE statements the most recent invocation sent to the target
Drops == {i \in 1..Len(call.sql) : call.sql[i].stmt = "DROP TABLE IF EXISTS"}

\* the most recent invocation was copydb_target_prepare_schema with
\* --drop-if-exists, entered with the pre-data restore not done
DropRequested ==
    /\ call.fn = "prepare"
    /\ call.cfg.dropIfExists
    /\ "preDataRestore" \notin call.entry

\* C13 as the specification states it: with --drop-if-exists and the
\* pre-data restore not done, the restorer is invoked only after exactly
\* one DROP TABLE IF EXISTS ... CASCADE naming the tables of the source
\* table array has been executed.
C13_ExactlyOneDrop ==
    (DropRequested /\ "preDataRestore" \in call.ran) =>
        /\ Cardinality(Drops) = 1
        /\ \A i \in Drops :
             call.sql[i].ok /\ call.sql[i].names = call.cfg.tableArray

\* C13: with --drop-if-exists, the pre-data restore not done and a source
\* table array that is not empty, the restorer is invoked (and the marker
\* written) only after exactly one DROP TABLE IF EXISTS ... CASCADE has
\* been executed with success; it names exactly the tables of the array,
\* so that other tables survive and the restored ones are there at the
\* end; when it fails the restorer is not invoked, no marker is written
\* and the function returns failure.  With an empty array no DROP is sent.
C13_OneDropUnlessNoTables ==
    DropRequested =>
        /\ Cardinality(Drops) <= 1
        /\ \A i \in Drops : call.sql[i].names = call.cfg.tableArray
        /\ Len(call.cfg.tableArray) = 0 => Drops = {}
        /\ (Len(call.cfg.tableArray) > 0
              /\ ("preDataRestore" \in call.ran
                    \/ "preDataRestore" \in done)) =>
               \E i \in Drops : call.sql[i].ok
        /\ (\E i \in Drops : ~call.sql[i].ok) =>
               /\ "preDataRestore" \notin call.ran
               /\ "preDataRestore" \notin done
               /\ call.ret = FALSE
        /\ "t3" \in tgtTables
        /\ "preDataRestore" \in done => RunTables \subseteq tgtTables

\* the stale tables of the run were dropped, then restored
C13_Witness ==
    /\ DropRequested
    /\ Len(call.cfg.tableArray) > 0
    /\ Cardinality(Drops) = 1
    /\ "preDataRestore" \in call.ran
    /\ "preDataRestore" \in done
    /\ call.ret = TRUE

\* C21: --drop-if-exists never destroys work already done: an invocation
\* of copydb_target_prepare_schema entered with the pre-data-restore
\* done-marker present sends no statement to the target and does not invoke
\* the restorer, whatever dropIfExists says; the tables restored stay on
\* the target for as long as the marker is there.
C21_NoDropAfterMarker ==
    /\ (call.fn = "prepare" /\ "preDataRestore" \in call.entry) =>
          /\ Drops = {}
          /\ call.sql = <<>>
          /\ "preDataRestore" \notin call.ran
          /\ call.ret = TRUE
    /\ "preDataRestore" \in done => RunTables \subseteq tgtTables

\* the pre-data restore was done, and copydb_target_prepare_schema was
\* invoked again with --drop-if-exists and tables to drop
C21_Witness ==
    /\ call.fn = "prepare"
    /\ "preDataRestore" \in call.entry
    /\ call.cfg.dropIfExists
    /\ Len(call.cfg.tableArray) > 0
    /\ RunTables \subseteq tgtTables

----------------------------------------------------------------------------
(* The schema driver, killed and run again                                 *)

\* every step succeeds
DumpOk == [dumpPre |-> "ok", writePre |-> TRUE,
           dumpPost |-> "ok", writePost |-> TRUE]
RestoreOk == [list |-> "ok", drop |-> "ok", ns |-> "ok", restore |-> "ok",
              write |-> TRUE]

\* The process is killed between two steps: the steps before the kill have
\* succeeded, the step after it and the following ones do not happen.  A
\* step that does not happen is given the outcome that leaves no trace.
DumpKills ==
    {o \in DumpInputs :
        /\ o.dumpPre \in {"ok", "fail"} /\ o.dumpPost \in {"ok", "fail"}
        /\ o # DumpOk}
RestoreKills ==
    {o \in RestoreInputs :
        /\ o.list \in {"ok", "listfail"}
        /\ o.drop \in {"ok", "noconn"}
        /\ o.ns \in {"ok", "noconn"}
        /\ o.restore \in {"ok", "fail"}
        /\ o # RestoreOk}

\* the handler's world becomes the next state; the configuration of the
\* command and the memory of a kill stay
Continues(w, fn, kill) ==
    Becomes([w EXCEPT !.call.cfg = call.cfg,
                      !.call.killed = call.killed \/ kill],
            IF kill THEN "killed" ELSE fn)

\* the command starts from its first operation: at first, after a kill,
\* after a failure and when it is run again
AtDump == call.fn \in {"none", "killed", "finalize"} \/ call.ret = FALSE
AtPrepare == call.fn = "dump" /\ call.ret = TRUE
AtFinalize == call.fn = "prepare" /\ call.ret = TRUE

RunDump ==
    /\ AtDump
    /\ Continues(copydb_dump_source_schema(World, "all", DumpOk),
                 "dump", FALSE)

KillDump ==
    /\ AtDump
    /\ \E o \in DumpKills :
         Continues(copydb_dump_source_schema(World, "all", o), "dump", TRUE)

RunPrepare ==
    /\ AtPrepare
    /\ Continues(copydb_target_prepare_schema(World, call.cfg, RestoreOk),
                 "prepare", FALSE)

KillPrepare ==
    /\ AtPrepare
    /\ \E o \in RestoreKills :
         /\ (~call.cfg.dropIfExists \/ Len(call.cfg.tableArray) = 0)
               => o.drop = "ok"
         /\ Len(call.cfg.includeOnlySchemaList) = 0 => o.ns = "ok"
         /\ Continues(copydb_target_prepare_schema(World, call.cfg, o),
                      "prepare", TRUE)

RunFinalize ==
    /\ AtFinalize
    /\ Continues(copydb_target_finalize_schema(World, RestoreOk),
                 "finalize", FALSE)

KillFinalize ==
    /\ AtFinalize
    /\ \E o \in RestoreKills :
         /\ o.drop = "ok" /\ o.ns = "ok"
         /\ Continues(copydb_target_finalize_schema(World, o),
                      "finalize", TRUE)

InitRestart ==
    /\ done = {}
    /\ dumpFiles = {}
    /\ listFiles = [pre |-> NoFile, post |-> NoFile]
    /\ idxDone = {}
    /\ archive = RunArchive
    /\ tgtTables = StaleTables
    /\ tgtSchemas = {}
    /\ tgtRestored = {}
    /\ everOK = {}
    /\ \E cfg \in RestoreConfigs : call = [NoCall EXCEPT !.cfg = cfg]
    /\ ReplayIdle
    /\ ExtIdle

NextRestart ==
    \/ RunDump
    \/ KillDump
    \/ RunPrepare
    \/ KillPrepare
    \/ RunFinalize
    \/ KillFinalize
    \/ IndexBuilt

SpecRestart == InitRestart /\ [][NextRestart]_vars

\* the state an uninterrupted run of the command ends in
Uninterrupted(cfg) ==
    LET w0 == [done |-> {}, dumpFiles |-> {},
               listFiles |-> [pre |-> NoFile, post |-> NoFile],
               tgtTables |-> StaleTables, tgtSchemas |-> {},
               tgtRestored |-> {}, everOK |-> {}, call |-> NoCall]
        w1 == copydb_dump_source_schema(w0, "all", DumpOk)
        w2 == copydb_target_prepare_schema(w1, cfg, RestoreOk)
    IN  copydb_target_finalize_schema(w2, RestoreOk)

\* done-markers and restored schema are those of w
SameTerminalState(w) ==
    /\ done = w.done
    /\ dumpFiles = w.dumpFiles
    /\ tgtTables = w.tgtTables
    /\ tgtSchemas = w.tgtSchemas
    /\ tgtRestored = w.tgtRestored

\* C14: whatever kills between two steps came before, when the command
\* (dump, pre-data restore, post-data restore) runs to its end the
\* done-markers and the schema restored on the target are those an
\* uninterrupted run ends with; and every state with all four done-markers
\* is that state.
C14_RestartSafety ==
    /\ (call.fn = "finalize" /\ call.ret = TRUE) =>
          SameTerminalState(Uninterrupted(call.cfg))
    /\ done = Units => SameTerminalState(Uninterrupted(call.cfg))

\* the command was killed, run again and came to its end
C14_Witness ==
    /\ call.killed
    /\ call.fn = "finalize"
    /\ call.ret = TRUE
    /\ call.cfg.dropIfExists
    /\ done = Units

----------------------------------------------------------------------------
(* ld_replay.c: the live replay applier                                    *)

\* statements a transaction of the stream carries at most
MaxStmts == 1

\* seconds the clock advances at most during a run
MaxTicks == 2

\* time(NULL) when the applier starts
StartTime == 2

\* the replication slot's consistent LSN is in 0..MaxSlotLSN
MaxSlotLSN == 1

\* a difference no two times of the model reach: stands for the wrapped
\* result of an unsigned 64-bit subtraction
Wrapped == 1000

ProgressActions == {"COMMIT", "KEEPALIVE"}
DMLActions == {"INSERT", "UPDATE"}

\* the lines that can follow the line read last.  Transactions arrive in
\* commit-LSN order, each as BEGIN, statements, COMMIT, all carrying its
\* commit LSN, with as many INSERTs as the source transaction inserted
\* rows; a keepalive carries the current LSN, at or after the line before
\* it and before the next commit; a SWITCH line can open the stream.
NextLines(last, floor, src) ==
    LET at == IF last.action = "NONE" THEN floor ELSE last.lsn
        later == {c \in src.txns : c > at}
        next == IF later = {} THEN MaxLSN + 1
                ELSE CHOOSE c \in later : \A d \in later : c <= d
    IN  IF last.action \in {"BEGIN"} \cup DMLActions
        THEN {[last EXCEPT !.action = "COMMIT"] :
                 x \in IF last.ins = src.rows[last.lsn] THEN {1} ELSE {}}
             \cup {[action |-> a, lsn |-> last.lsn, k |-> last.k + 1,
                    ins |-> last.ins + (IF a = "INSERT" THEN 1 ELSE 0)] :
                      a \in {d \in DMLActions :
                               /\ last.k < MaxStmts
                               /\ d = "INSERT"
                                    => last.ins < src.rows[last.lsn]
                               /\ d # "INSERT"
                                    => MaxStmts - last.k - 1
                                         >= src.rows[last.lsn] - last.ins}}
        ELSE {[action |-> "BEGIN", lsn |-> c, k |-> 0, ins |-> 0] :
                 c \in {next} \cap (1..MaxLSN)}
             \cup {[action |-> "KEEPALIVE", lsn |-> c, k |-> 0, ins |-> 0] :
                      c \in (IF at = 0 THEN 1 ELSE at)..(next - 1)}
             \cup (IF last.action = "NONE"
                   THEN {[action |-> "SWITCH", lsn |-> floor, k |-> 0,
                          ins |-> 0]}
                   ELSE {})

\* what the source database can hold: the commit LSNs of its transactions,
\* and the rows each inserted
Sources ==
    {src \in [txns : SUBSET (1..MaxLSN),
              rows : [1..MaxLSN -> 0..MaxStmts]] :
        \A c \in 1..MaxLSN : c \notin src.txns => src.rows[c] = 0}

\* uint64_t subtraction, as far as the comparison with 1 can tell
U64Sub(a, b) == IF a >= b THEN a - b ELSE Wrapped

\* stream_apply_sql: apply one parsed line on the target
stream_apply_sql(ctx, tgt, line) ==
    LET a == line.action
        l == line.lsn
        started == \/ ctx.reachedStartPos
                   \/ (a \in {"BEGIN", "KEEPALIVE"} /\ ctx.previousLSN < l)
        c1 == [ctx EXCEPT !.reachedStartPos = started]
        beyond == c1.endpos # 0 /\ c1.endpos < l
    IN  IF ~started THEN [ctx |-> ctx, tgt |-> tgt]
        ELSE CASE a = "BEGIN" ->
                    IF beyond
                    THEN [ctx |-> [c1 EXCEPT !.reachedEndPos = TRUE],
                          tgt |-> tgt]
                    ELSE [ctx |-> c1,
                          tgt |-> [tgt EXCEPT !.open = l, !.pending = 0]]
               [] a = "INSERT" ->
                    IF tgt.open # 0
                    THEN [ctx |-> c1,
                          tgt |-> [tgt EXCEPT !.pending = @ + 1]]
                    ELSE [ctx |-> c1,
                          tgt |-> [tgt EXCEPT !.rows[l] = @ + 1]]
               [] a = "COMMIT" ->
                    [ctx |-> [c1 EXCEPT !.previousLSN = l],
                     tgt |-> IF tgt.open # 0
                             THEN [tgt EXCEPT
                                     !.rows[tgt.open] = @ + tgt.pending,
                                     !.commits = Append(@, tgt.open),
                                     !.origin = l,
                                     !.open = 0, !.pending = 0]
                             ELSE tgt]
               [] a = "KEEPALIVE" ->
                    IF beyond
                    THEN [ctx |-> [c1 EXCEPT !.reachedEndPos = TRUE],
                          tgt |-> tgt]
                    ELSE [ctx |-> [c1 EXCEPT !.previousLSN = l],
                          tgt |-> [tgt EXCEPT !.origin = l]]
               [] OTHER -> [ctx |-> c1, tgt |-> tgt]

\* stream_apply_send_sync_sentinel: send the asynchronous UPDATE
stream_apply_send_sync_sentinel(ctx, outcome) ==
    IF outcome = "fail"
    THEN [ok |-> FALSE, ctx |-> ctx, sent |-> 0, got |-> 0]
    ELSE [ok |-> TRUE, ctx |-> [ctx EXCEPT !.sentinelQueryInProgress = TRUE],
          sent |-> 1, got |-> 0]

\* stream_apply_fetch_sync_sentinel: fetch the result when it has arrived;
\* the row returned carries the sentinel's current endpos
stream_apply_fetch_sync_sentinel(ctx, outcome, e, t) ==
    CASE outcome = "fail" ->
           [ok |-> FALSE, ctx |-> ctx, sent |-> 0, got |-> 0]
      [] outcome = "retry" ->
           [ok |-> TRUE, ctx |-> ctx, sent |-> 0, got |-> 0]
      [] OTHER ->
           [ok |-> TRUE,
            ctx |-> [ctx EXCEPT !.sentinelQueryInProgress = FALSE,
                                !.sentinelSyncTime = t,
                                !.endpos = e],
            sent |-> 0, got |-> 1]

\* a variant that sends at every progress point, in flight or not
ReportProgressAlwaysSend(ctx, action, outcome, e, t) ==
    IF action \in ProgressActions
    THEN stream_apply_send_sync_sentinel(ctx, outcome)
    ELSE [ok |-> TRUE, ctx |-> ctx, sent |-> 0, got |-> 0]

\* a variant without the rate limit
ReportProgressNoRateLimit(ctx, action, outcome, e, t) ==
    IF action \in ProgressActions
    THEN IF ctx.sentinelQueryInProgress
         THEN stream_apply_fetch_sync_sentinel(ctx, outcome, e, t)
         ELSE stream_apply_send_sync_sentinel(ctx, outcome)
    ELSE [ok |-> TRUE, ctx |-> ctx, sent |-> 0, got |-> 0]

\* stream_replay_line, the switch on metadata.action
ReportProgress(ctx, action, outcome, e, t) ==
    IF action \in ProgressActions
    THEN IF ctx.sentinelQueryInProgress
         THEN stream_apply_fetch_sync_sentinel(ctx, outcome, e, t)
         ELSE IF 1 < U64Sub(t, ctx.sentinelSyncTime)
         THEN stream_apply_send_sync_sentinel(ctx, outcome)
         ELSE [ok |-> TRUE, ctx |-> ctx, sent |-> 0, got |-> 0]
    ELSE [ok |-> TRUE, ctx |-> ctx, sent |-> 0, got |-> 0]

\* a variant that stops only on reachedEndPos
StopCheckIgnoresEndpos(ctx) ==
    [stop |-> ctx.reachedEndPos, ctx |-> ctx]

\* a variant that never stops
StopCheckNever(ctx) ==
    [stop |-> FALSE, ctx |-> ctx]

\* a variant that stops one LSN early
StopCheckEarly(ctx) ==
    IF \/ ctx.reachedEndPos
       \/ (ctx.endpos # 0 /\ ctx.endpos <= ctx.previousLSN + 1)
    THEN [stop |-> TRUE, ctx |-> [ctx EXCEPT !.reachedEndPos = TRUE]]
    ELSE [stop |-> FALSE, ctx |-> ctx]

\* stream_replay_line, the check after the progress report
StopCheck(ctx) ==
    IF \/ ctx.reachedEndPos
       \/ (ctx.endpos # 0 /\ ctx.endpos <= ctx.previousLSN)
    THEN [stop |-> TRUE, ctx |-> [ctx EXCEPT !.reachedEndPos = TRUE]]
    ELSE [stop |-> FALSE, ctx |-> ctx]

\* what the check of stream_replay_line reads
AtCheck(ctx) ==
    [endpos |-> ctx.endpos, previousLSN |-> ctx.previousLSN,
     reachedEndPos |-> ctx.reachedEndPos]

\* a variant that applies every line twice
StreamReplayLineTwice(ctx, tgt, line, o, e, t) ==
    LET failed == [ok |-> FALSE, ctx |-> ctx, tgt |-> tgt, stop |-> FALSE,
                   sent |-> 0, got |-> 0, atCheck |-> NoRun.atCheck]
    IN  IF o.line # "ok" THEN failed
        ELSE
        LET a1 == stream_apply_sql(ctx, tgt, line)
            a == stream_apply_sql(a1.ctx, a1.tgt, line)
            p == ReportProgress(a.ctx, line.action, o.sync, e, t)
        IN  IF ~p.ok
            THEN [failed EXCEPT !.ctx = p.ctx, !.tgt = a.tgt]
            ELSE
            LET s == StopCheck(p.ctx)
            IN  [ok |-> TRUE, ctx |-> s.ctx, tgt |-> a.tgt, stop |-> s.stop,
                 sent |-> p.sent, got |-> p.got, atCheck |-> AtCheck(p.ctx)]

\* stream_replay_line(ctx, line, stop)
stream_replay_line(ctx, tgt, line, o, e, t) ==
    LET failed == [ok |-> FALSE, ctx |-> ctx, tgt |-> tgt, stop |-> FALSE,
                   sent |-> 0, got |-> 0, atCheck |-> NoRun.atCheck]
    IN  IF o.line # "ok" THEN failed
        ELSE
        LET a == stream_apply_sql(ctx, tgt, line)
            p == ReportProgress(a.ctx, line.action, o.sync, e, t)
        IN  IF ~p.ok
            THEN [failed EXCEPT !.ctx = p.ctx, !.tgt = a.tgt]
            ELSE
            LET s == StopCheck(p.ctx)
            IN  [ok |-> TRUE, ctx |-> s.ctx, tgt |-> a.tgt, stop |-> s.stop,
                 sent |-> p.sent, got |-> p.got, atCheck |-> AtCheck(p.ctx)]

----------------------------------------------------------------------------
(* stream_apply_replay as a state machine                                  *)

\* the target connection is closed: an open transaction is rolled back
pgsql_finish(tgt) == [tgt EXCEPT !.open = 0, !.pending = 0]

\* stream_apply_sync_sentinel: the synchronous UPDATE ... RETURNING of the
\* sentinel row, replay_lsn set to the last applied LSN
stream_apply_sync_sentinel(ctx, e, t) ==
    [ctx EXCEPT !.replay_lsn = ctx.previousLSN, !.endpos = e,
                !.sentinelSyncTime = t]

\* stream_apply_replay returns
Returns(value, tgt) ==
    /\ pc' = "returned"
    /\ ret' = value
    /\ target' = pgsql_finish(tgt)

\* the schema driver is not running
SchemaIdle ==
    /\ done = {}
    /\ dumpFiles = {}
    /\ listFiles = [pre |-> NoFile, post |-> NoFile]
    /\ idxDone = {}
    /\ archive = RunArchive
    /\ tgtTables = StaleTables
    /\ tgtSchemas = {}
    /\ tgtRestored = {}
    /\ everOK = {}
    /\ call = NoCall

\* The snapshot and the replication slot agree on the slot's consistent
\* LSN: the rows committed up to it were copied under the snapshot, the
\* stream delivers what was committed after it, and the replication origin
\* starts there.
InitReplay ==
    /\ SchemaIdle
    /\ ExtIdle
    /\ pc = "entry"
    /\ ret = "none"
    /\ context = ZeroContext
    /\ stop = FALSE
    /\ now = StartTime
    /\ srcPending = 0
    /\ cursor = NoLine
    /\ source \in Sources
    /\ \E slot \in 0..MaxSlotLSN :
         /\ target = [open |-> 0, pending |-> 0,
                      rows |-> [c \in 1..MaxLSN |->
                                  IF c <= slot THEN source.rows[c] ELSE 0],
                      commits |-> <<>>, origin |-> slot]
         /\ run = [NoRun EXCEPT !.slotLSN = slot]

\* a variant that goes on whatever stream_apply_wait_for_sentinel returns
WaitForSentinelIgnored ==
    /\ pc = "entry"
    /\ \E stdIn \in BOOLEAN, sentinelOK \in BOOLEAN :
         /\ ~stdIn => sentinelOK
         /\ IF stdIn
            THEN /\ pc' = "setup"
                 /\ context' = [context EXCEPT !.apply = sentinelOK]
                 /\ UNCHANGED <<ret, target>>
            ELSE /\ Returns("false", target)
                 /\ UNCHANGED context
    /\ UNCHANGED <<stop, now, srcPending, cursor, source, run>>
    /\ UNCHANGED <<schemaVars, extVars>>

\* stream_apply_replay, up to stream_apply_wait_for_sentinel
WaitForSentinel ==
    /\ pc = "entry"
    /\ \E stdIn \in BOOLEAN, sentinelOK \in BOOLEAN :
         /\ ~stdIn => sentinelOK
         /\ IF stdIn /\ sentinelOK
            THEN /\ pc' = "setup"
                 /\ context' = [context EXCEPT !.apply = TRUE]
                 /\ UNCHANGED <<ret, target>>
            ELSE /\ Returns("false", target)
                 /\ UNCHANGED context
    /\ UNCHANGED <<stop, now, srcPending, cursor, source, run>>
    /\ UNCHANGED <<schemaVars, extVars>>

\* a variant that starts from the beginning of the stream whatever the
\* replication origin of the target says
SetupIgnoresOrigin ==
    /\ pc = "setup"
    /\ \E o \in {"ok", "ctxfail", "originfail", "initfail"}, e \in 0..MaxLSN :
         /\ o \in {"ctxfail", "originfail"} => e = 0
         /\ IF o \in {"ctxfail", "originfail"}
            THEN /\ Returns("false", target)
                 /\ UNCHANGED <<context, run>>
            ELSE /\ context' = [context EXCEPT !.endpos = e,
                                               !.previousLSN = run.slotLSN]
                 /\ IF e # 0 /\ e <= run.slotLSN
                    THEN /\ o = "ok"
                         /\ Returns("true", target)
                         /\ run' = [run EXCEPT !.early = TRUE]
                    ELSE IF o = "initfail"
                    THEN /\ Returns("false", target)
                         /\ UNCHANGED run
                    ELSE /\ pc' = "reading"
                         /\ UNCHANGED <<ret, target, run>>
    /\ UNCHANGED <<stop, now, srcPending, cursor, source>>
    /\ UNCHANGED <<schemaVars, extVars>>

\* stream_apply_replay, from stream_read_context to pgsql_init: the origin
\* gives previousLSN, and the run ends here when endpos was reached before
SetupReplicationOrigin ==
    /\ pc = "setup"
    /\ \E o \in {"ok", "ctxfail", "originfail", "initfail"}, e \in 0..MaxLSN :
         /\ o \in {"ctxfail", "originfail"} => e = 0
         /\ IF o \in {"ctxfail", "originfail"}
            THEN /\ Returns("false", target)
                 /\ UNCHANGED <<context, run>>
            ELSE /\ context' = [context EXCEPT !.endpos = e,
                                               !.previousLSN = target.origin]
                 /\ IF e # 0 /\ e <= target.origin
                    THEN /\ o = "ok"
                         /\ Returns("true", target)
                         /\ run' = [run EXCEPT !.early = TRUE]
                    ELSE IF o = "initfail"
                    THEN /\ Returns("false", target)
                         /\ UNCHANGED run
                    ELSE /\ pc' = "reading"
                         /\ UNCHANGED <<ret, target, run>>
    /\ UNCHANGED <<stop, now, srcPending, cursor, source>>
    /\ UNCHANGED <<schemaVars, extVars>>

LineInputs == [line : {"ok", "parsefail", "sqlfail"},
               sync : {"ok", "fail", "retry"}]

\* the place of a line in the stream: by LSN, and for one LSN the
\* transaction's BEGIN, statements and COMMIT, then the keepalives
LinePosition(line) ==
    line.lsn * (MaxStmts + 4)
      + CASE line.action \in {"NONE", "SWITCH"} -> 0
          [] line.action = "BEGIN" -> 1
          [] line.action \in DMLActions -> 1 + line.k
          [] line.action = "COMMIT" -> MaxStmts + 2
          [] OTHER -> MaxStmts + 3

\* the stream is a file: up to the last line an earlier replay read it
\* holds the keepalives that replay read, between the transactions of the
\* source, and when that replay found its end it holds no line after
InStream(line) ==
    /\ run.first.eof => LinePosition(line) <= LinePosition(run.first.last)
    /\ (/\ run.replays > 0
        /\ line.action = "KEEPALIVE"
        /\ LinePosition(line) <= LinePosition(run.first.last))
          => line \in run.first.file
AtEndOfStream ==
    run.first.eof => cursor = run.first.last

\* read_from_stream reads one line and calls stream_replay_line
ReplayLine ==
    /\ pc = "reading"
    /\ ~stop
    /\ \E line \in NextLines(cursor, run.slotLSN, source), o \in LineInputs,
          e \in 0..MaxLSN :
         /\ InStream(line)
         \* one input per distinct execution
         /\ (o.line # "ok" \/ line.action \notin ProgressActions)
               => o.sync = "ok"
         /\ ~context.sentinelQueryInProgress => o.sync # "retry"
         /\ ~(o.line = "ok" /\ line.action \in ProgressActions
              /\ context.sentinelQueryInProgress /\ o.sync = "ok")
               => e = 0
         /\ LET r == stream_replay_line(context, target, line, o, e, now)
            IN  /\ cursor' = line
                /\ UNCHANGED source
                /\ context' = r.ctx
                /\ stop' = r.stop
                /\ srcPending' = srcPending + r.sent - r.got
                /\ run' = Filed(Noted([run EXCEPT
                     !.read = TRUE,
                     !.sendTime = IF r.sent = 1 THEN now ELSE @,
                     !.sends = @ + r.sent,
                     !.endposChanged = @ \/ r.ctx.endpos # context.endpos,
                     !.reduced = @ \/ (/\ r.ctx.endpos # context.endpos
                                       /\ r.ctx.endpos # 0
                                       /\ r.ctx.endpos <= r.ctx.previousLSN),
                     !.atCheck = r.atCheck]), line)
                /\ IF ~r.ok
                   THEN Returns("false", r.tgt)
                   ELSE /\ pc' = IF r.stop THEN "draining" ELSE "reading"
                        /\ target' = r.tgt
                        /\ UNCHANGED ret
    /\ UNCHANGED now
    /\ UNCHANGED <<schemaVars, extVars>>

\* read_from_stream finds the end of its input
EndOfInput ==
    /\ pc = "reading"
    /\ ~stop
    /\ AtEndOfStream
    /\ pc' = "draining"
    /\ UNCHANGED <<ret, context, stop, now, srcPending, cursor, source,
                   target, run>>
    /\ UNCHANGED <<schemaVars, extVars>>

\* read_from_stream fails to read its input
ReadFails ==
    /\ pc = "reading"
    /\ ~stop
    /\ Returns("false", target)
    /\ UNCHANGED <<context, stop, now, srcPending, cursor, source, run>>
    /\ UNCHANGED <<schemaVars, extVars>>

\* the loop on sentinelQueryInProgress, one iteration
DrainFetch ==
    /\ pc = "draining"
    /\ context.sentinelQueryInProgress
    /\ \E outcome \in {"ok", "fail", "retry"}, e \in 0..MaxLSN :
         /\ outcome # "ok" => e = 0
         /\ LET r == stream_apply_fetch_sync_sentinel(context, outcome, e, now)
            IN  /\ context' = r.ctx
                /\ srcPending' = srcPending - r.got
                /\ run' = Noted([run EXCEPT
                     !.drained = TRUE,
                     !.endposChanged = @ \/ r.ctx.endpos # context.endpos])
                /\ IF r.ok
                   THEN UNCHANGED <<pc, ret, target>>
                   ELSE Returns("false", target)
    /\ UNCHANGED <<stop, now, cursor, source>>
    /\ UNCHANGED <<schemaVars, extVars>>

\* a variant that returns without the last sentinel update
FinalSyncSkipped ==
    /\ pc = "draining"
    /\ ~context.sentinelQueryInProgress
    /\ Returns("true", target)
    /\ UNCHANGED <<context, stop, now, srcPending, cursor, source, run>>
    /\ UNCHANGED <<schemaVars, extVars>>

\* what the last sentinel update finds: the asynchronous query, the
\* source connection and the target connection after pgsql_finish
AtSync ==
    [inProgress |-> context.sentinelQueryInProgress,
     pending |-> srcPending,
     open |-> pgsql_finish(target).open]

\* a variant that does not wait for the query in flight
FinalSyncOverlaps ==
    /\ pc = "draining"
    /\ \E syncOK \in BOOLEAN, e \in 0..MaxLSN :
         /\ ~syncOK => e = 0
         /\ IF syncOK
            THEN /\ context' = stream_apply_sync_sentinel(context, e, now)
                 /\ run' = Noted([run EXCEPT
                      !.finalSyncs = @ + 1,
                      !.syncResult = "ok",
                      !.atSync = AtSync,
                      !.endposChanged = @ \/ e # context.endpos])
                 /\ Returns("true", target)
            ELSE /\ run' = Noted([run EXCEPT !.finalSyncs = @ + 1,
                                             !.syncResult = "failed",
                                             !.atSync = AtSync])
                 /\ Returns("false", target)
                 /\ UNCHANGED context
    /\ UNCHANGED <<stop, now, srcPending, cursor, source>>
    /\ UNCHANGED <<schemaVars, extVars>>

\* a variant that goes on only once a query in flight has been fetched
FinalSyncWaitsForQuery ==
    /\ pc = "draining"
    /\ ~context.sentinelQueryInProgress
    /\ run.drained
    /\ \E syncOK \in BOOLEAN, e \in 0..MaxLSN :
         /\ ~syncOK => e = 0
         /\ IF syncOK
            THEN /\ context' = stream_apply_sync_sentinel(context, e, now)
                 /\ run' = Noted([run EXCEPT
                      !.finalSyncs = @ + 1,
                      !.syncResult = "ok",
                      !.atSync = AtSync,
                      !.endposChanged = @ \/ e # context.endpos])
                 /\ Returns("true", target)
            ELSE /\ run' = Noted([run EXCEPT !.finalSyncs = @ + 1,
                                             !.syncResult = "failed",
                                             !.atSync = AtSync])
                 /\ Returns("false", target)
                 /\ UNCHANGED context
    /\ UNCHANGED <<stop, now, srcPending, cursor, source>>
    /\ UNCHANGED <<schemaVars, extVars>>

\* after the loop: pgsql_finish, the last synchronous sentinel update, return
FinalSync ==
    /\ pc = "draining"
    /\ ~context.sentinelQueryInProgress
    /\ \E syncOK \in BOOLEAN, e \in 0..MaxLSN :
         /\ ~syncOK => e = 0
         /\ IF syncOK
            THEN /\ context' = stream_apply_sync_sentinel(context, e, now)
                 /\ run' = Noted([run EXCEPT
                      !.finalSyncs = @ + 1,
                      !.syncResult = "ok",
                      !.atSync = AtSync,
                      !.endposChanged = @ \/ e # context.endpos])
                 /\ Returns("true", target)
            ELSE /\ run' = Noted([run EXCEPT !.finalSyncs = @ + 1,
                                             !.syncResult = "failed",
                                             !.atSync = AtSync])
                 /\ Returns("false", target)
                 /\ UNCHANGED context
    /\ UNCHANGED <<stop, now, srcPending, cursor, source>>
    /\ UNCHANGED <<schemaVars, extVars>>

\* a second passes between two lines
Tick ==
    /\ pc = "reading"
    /\ now < StartTime + MaxTicks
    /\ now' = now + 1
    /\ UNCHANGED <<pc, ret, context, stop, srcPending, cursor, source,
                   target, run>>
    /\ UNCHANGED <<schemaVars, extVars>>

NextReplay ==
    \/ WaitForSentinel
    \/ SetupReplicationOrigin
    \/ ReplayLine
    \/ EndOfInput
    \/ ReadFails
    \/ DrainFetch
    \/ FinalSync
    \/ Tick

SpecReplay == InitReplay /\ [][NextReplay]_vars

\* the stream and the exit, without the clock
NextReplayUntimed ==
    \/ WaitForSentinel
    \/ SetupReplicationOrigin
    \/ ReplayLine
    \/ EndOfInput
    \/ ReadFails
    \/ DrainFetch
    \/ FinalSync

\* the query in flight delivers its result or fails
QueryAnswered ==
    /\ DrainFetch
    /\ ~context'.sentinelQueryInProgress \/ pc' = "returned"

\* The loop on sentinelQueryInProgress keeps fetching every 100ms, and each
\* query in flight is answered in the end; the statements after the loop
\* are executed when the loop is left.
SpecReplayLive ==
    /\ InitReplay
    /\ [][NextReplayUntimed]_vars
    /\ WF_vars(QueryAnswered)
    /\ WF_vars(FinalSync)

\* the same stream is replayed a second time by a new process: the target
\* database stays as the first replay left it, everything else starts anew
ReplayAgain ==
    /\ pc = "returned"
    /\ run.replays = 0
    /\ pc' = "entry"
    /\ ret' = "none"
    /\ context' = ZeroContext
    /\ stop' = FALSE
    /\ srcPending' = 0
    /\ cursor' = NoLine
    /\ run' = [NoRun EXCEPT
                 !.slotLSN = run.slotLSN,
                 !.replays = 1,
                 !.first = [ret |-> ret,
                            eof |-> ret = "true" /\ ~stop /\ ~run.early,
                            last |-> cursor,
                            file |-> run.file,
                            rows |-> target.rows,
                            commits |-> target.commits,
                            origin |-> target.origin]]
    /\ UNCHANGED <<now, source, target>>
    /\ UNCHANGED <<schemaVars, extVars>>

NextReplayTwice ==
    \/ WaitForSentinel
    \/ SetupReplicationOrigin
    \/ ReplayLine
    \/ EndOfInput
    \/ ReadFails
    \/ DrainFetch
    \/ FinalSync
    \/ ReplayAgain

\* the keepalives read are remembered, for the second replay to read the
\* same
InitReplayTwice ==
    /\ SchemaIdle
    /\ ExtIdle
    /\ pc = "entry"
    /\ ret = "none"
    /\ context = ZeroContext
    /\ stop = FALSE
    /\ now = StartTime
    /\ srcPending = 0
    /\ cursor = NoLine
    /\ source \in Sources
    /\ \E slot \in 0..MaxSlotLSN :
         /\ target = [open |-> 0, pending |-> 0,
                      rows |-> [c \in 1..MaxLSN |->
                                  IF c <= slot THEN source.rows[c] ELSE 0],
                      commits |-> <<>>, origin |-> slot]
         /\ run = [NoRun EXCEPT !.slotLSN = slot, !.keep = TRUE]

SpecReplayTwice == InitReplayTwice /\ [][NextReplayTwice]_vars

----------------------------------------------------------------------------
(* extensions.c: the extension configuration tables                        *)
MaxExtensions == 2
MaxConfigs == 2

\* the where-clause of a configuration table (extcondition), maybe empty
Conditions == {"", "WHERE keep"}

\* the configuration tables one extension may have, in catalog order
ConfigArrays ==
    UNION { [1..m -> Conditions] : m \in 0..MaxConfigs }

\* the source catalog's extension array
ExtensionArrays ==
    UNION { { [i \in 1..n |->
                 [extname |-> i,
                  config |-> [j \in 1..Len(c[i]) |->
                                 [nspname |-> "public", relname |-> <<i, j>>,
                                  condition |-> c[i][j]]]]] :
              c \in [1..n -> ConfigArrays] } : n \in 0..MaxExtensions }

\* how many configuration tables the whole catalog has
RECURSIVE ConfigCount(_)
ConfigCount(array) ==
    IF array = <<>> THEN 0
    ELSE Len(Head(array).config) + ConfigCount(Tail(array))

\* what the environment does to one call of copydb_copy_extensions: whether
\* the target connection opens, which CREATE EXTENSION statements fail, and
\* which copy (counted in the order issued, 0 for none) fails
CopyOutcomes(array, createExtensions) ==
    { [init |-> FALSE, createFail |-> {}, copyFail |-> 0] } \cup
    [init : {TRUE},
     createFail : IF createExtensions THEN SUBSET (1..Len(array)) ELSE {{}},
     copyFail : 0..ConfigCount(array)]

CopiesIn(sql) == SelectSeq(sql, LAMBDA q : q.kind = "copy")
CreatesIn(sql) == SelectSeq(sql, LAMBDA q : q.kind = "create")

\* a single index shared by both loops
OuterIndexShared(i, count) == count + 1

\* the inner loop declares an index of its own: the outer index is what it
\* was when the inner loop ends with its own index at count
OuterIndexAfterConfigs(i, count) == i

\* the inner loop: one pg_copy per configuration table, from the j-th on
RECURSIVE CopyConfigs(_, _, _, _)
CopyConfigs(ext, j, st, o) ==
    IF j > Len(ext.config) THEN st
    ELSE LET config == ext.config[j]
             qname == <<config.nspname, config.relname>>
             ok == Len(CopiesIn(st.sql)) + 1 # o.copyFail
             copy == [kind |-> "copy", ext |-> ext.extname, qname |-> qname,
                      select |-> qname, where |-> config.condition,
                      truncate |-> FALSE, ok |-> ok]
             after == [st EXCEPT !.sql = Append(@, copy)]
         IN  IF ~ok THEN [after EXCEPT !.failed = TRUE]
             ELSE CopyConfigs(ext, j + 1, after, o)

\* the outer loop: CREATE EXTENSION when asked, then the extension's tables
RECURSIVE CopyExtensionLoop(_, _, _, _, _)
CopyExtensionLoop(array, i, createExtensions, st, o) ==
    IF i > Len(array) THEN st
    ELSE LET ext == array[i]
             created ==
                 IF createExtensions
                 THEN [st EXCEPT
                          !.sql = Append(@, [kind |-> "create",
                                             ext |-> ext.extname,
                                             ok |-> i \notin o.createFail]),
                          !.errors = IF i \in o.createFail THEN @ + 1 ELSE @]
                 ELSE st
             copied ==
                 IF Len(ext.config) > 0
                 THEN CopyConfigs(ext, 1, created, o)
                 ELSE created
             next ==
                 IF Len(ext.config) > 0
                 THEN OuterIndexAfterConfigs(i, Len(ext.config)) + 1
                 ELSE i + 1
         IN  IF copied.failed THEN copied
             ELSE CopyExtensionLoop(array, next, createExtensions, copied, o)

\* a variant that forgets the CREATE EXTENSION errors it counted
CopyExtensionsForgetsErrors(array, createExtensions, o) ==
    IF ~o.init
    THEN [ok |-> FALSE, finished |-> FALSE, errors |-> 0, sql |-> <<>>]
    ELSE LET st == CopyExtensionLoop(array, 1, createExtensions,
                       [sql |-> <<>>, errors |-> 0, failed |-> FALSE], o)
         IN  IF st.failed
             THEN [ok |-> FALSE, finished |-> FALSE,
                   errors |-> st.errors, sql |-> st.sql]
             ELSE [ok |-> TRUE, finished |-> TRUE,
                   errors |-> st.errors, sql |-> st.sql]

\* copydb_copy_extensions: its result, the statements it sent to the target
\* and whether it closed the target connection
copydb_copy_extensions(array, createExtensions, o) ==
    IF ~o.init
    THEN [ok |-> FALSE, finished |-> FALSE, errors |-> 0, sql |-> <<>>]
    ELSE LET st == CopyExtensionLoop(array, 1, createExtensions,
                       [sql |-> <<>>, errors |-> 0, failed |-> FALSE], o)
         IN  IF st.failed
             THEN [ok |-> FALSE, finished |-> FALSE,
                   errors |-> st.errors, sql |-> st.sql]
             ELSE [ok |-> st.errors = 0, finished |-> TRUE,
                   errors |-> st.errors, sql |-> st.sql]

\* the record of one call
CopyCall(by, createExtensions, o) ==
    LET r == copydb_copy_extensions(extensions.catalog, createExtensions, o)
    IN  [by |-> by, createExtensions |-> createExtensions, ok |-> r.ok,
         finished |-> r.finished, errors |-> r.errors, sql |-> r.sql,
         o |-> o]

\* copydb_start_extension_data_process that waits for its child and
\* reports the child's outcome
StartAndWait ==
    /\ extensions.ret = "none" /\ extensions.copy = NoCopy
    /\ \E forkOk \in BOOLEAN :
         IF extensions.skipExtensions
         THEN extensions' = [extensions EXCEPT !.ret = "true"]
         ELSE IF ~forkOk
         THEN extensions' = [extensions EXCEPT !.ret = "false",
                                               !.fork = "failed"]
         ELSE \E o \in CopyOutcomes(extensions.catalog, FALSE) :
                LET c == CopyCall("child", FALSE, o)
                IN  extensions' =
                        [extensions EXCEPT
                            !.fork = "child", !.child = "exited",
                            !.atReturn = "exited", !.copy = c,
                            !.exitCode = IF c.ok THEN "EXIT_CODE_QUIT"
                                         ELSE "EXIT_CODE_INTERNAL_ERROR",
                            !.ret = IF c.ok THEN "true" ELSE "false"]
    /\ UNCHANGED <<schemaVars, replayVars>>

\* copydb_start_extension_data_process: nothing when extensions are
\* skipped, failure when fork fails, and otherwise success at once while
\* the child starts on its own
copydb_start_extension_data_process ==
    /\ extensions.ret = "none" /\ extensions.copy = NoCopy
    /\ \E forkOk \in BOOLEAN :
         IF extensions.skipExtensions
         THEN extensions' = [extensions EXCEPT !.ret = "true"]
         ELSE IF ~forkOk
         THEN extensions' = [extensions EXCEPT !.ret = "false",
                                               !.fork = "failed"]
         ELSE extensions' = [extensions EXCEPT !.ret = "true",
                                               !.fork = "child",
                                               !.child = "running",
                                               !.atReturn = "running"]
    /\ UNCHANGED <<schemaVars, replayVars>>

\* the forked child: copies the configuration tables without creating the
\* extensions, and exits with a code that tells how it went
ExtensionDataChild ==
    /\ extensions.child = "running"
    /\ \E o \in CopyOutcomes(extensions.catalog, FALSE) :
         LET c == CopyCall("child", FALSE, o)
         IN  extensions' =
                 [extensions EXCEPT
                     !.child = "exited", !.copy = c,
                     !.exitCode = IF c.ok THEN "EXIT_CODE_QUIT"
                                  ELSE "EXIT_CODE_INTERNAL_ERROR"]
    /\ UNCHANGED <<schemaVars, replayVars>>

\* copydb_copy_extensions called in the caller's own process
CopyExtensions ==
    /\ extensions.ret = "none" /\ extensions.copy = NoCopy
    /\ \E createExtensions \in BOOLEAN :
         \E o \in CopyOutcomes(extensions.catalog, createExtensions) :
            LET c == CopyCall("caller", createExtensions, o)
            IN  extensions' =
                    [extensions EXCEPT
                        !.copy = c,
                        !.ret = IF c.ok THEN "true" ELSE "false"]
    /\ UNCHANGED <<schemaVars, replayVars>>

InitExt ==
    /\ SchemaIdle
    /\ ReplayIdle
    /\ \E array \in ExtensionArrays, skip \in BOOLEAN :
         extensions = [NoExtensions EXCEPT !.catalog = array,
                                           !.skipExtensions = skip]

NextExt ==
    \/ copydb_start_extension_data_process
    \/ ExtensionDataChild
    \/ CopyExtensions

SpecExt == InitExt /\ [][NextExt]_vars

\* C15: starting the extension-data process never waits for the child: it
\* returns while the child is still running, reports success whatever the
\* child does afterwards, fails only when fork failed, and forks nothing
\* when extensions are skipped; the child exits with
\* EXIT_CODE_INTERNAL_ERROR when the copy failed and EXIT_CODE_QUIT
\* otherwise, and never creates extensions
C15_FireAndForget ==
    extensions.copy.by # "caller" =>
        /\ extensions.ret = "false" <=> extensions.fork = "failed"
        /\ extensions.fork = "failed" => extensions.child = "none"
        /\ (extensions.skipExtensions /\ extensions.ret # "none") =>
              /\ extensions.ret = "true"
              /\ extensions.fork = "none"
              /\ extensions.child = "none"
        /\ extensions.fork = "child" =>
              /\ extensions.ret = "true"
              /\ extensions.atReturn = "running"
        /\ extensions.child = "exited" =>
              /\ extensions.copy.by = "child"
              /\ ~extensions.copy.createExtensions
              /\ CreatesIn(extensions.copy.sql) = <<>>
              /\ extensions.exitCode = IF extensions.copy.ok
                                       THEN "EXIT_CODE_QUIT"
                                       ELSE "EXIT_CODE_INTERNAL_ERROR"

\* the child failed after the parent had reported success
C15_Witness ==
    /\ extensions.ret = "true"
    /\ extensions.atReturn = "running"
    /\ extensions.child = "exited"
    /\ extensions.exitCode = "EXIT_CODE_INTERNAL_ERROR"
    /\ CopiesIn(extensions.copy.sql) # <<>>

\* the (extension, configuration table) pairs of the catalog
Pairs(array) ==
    { p \in (1..Len(array)) \X (1..MaxConfigs + 1) :
        p[2] <= Len(array[p[1]].config) }

\* catalog order: by extension, then by configuration table
Before(p, q) == p[1] < q[1] \/ (p[1] = q[1] /\ p[2] < q[2])

\* the place of a pair in catalog order
Rank(array, p) == Cardinality({ q \in Pairs(array) : Before(q, p) }) + 1

\* a call of copydb_copy_extensions in which every step succeeded
NoStepFailed ==
    /\ extensions.copy.by # "none"
    /\ extensions.copy.o.init
    /\ extensions.copy.o.createFail = {}
    /\ extensions.copy.o.copyFail = 0

\* C20: when no step fails, copydb_copy_extensions issues exactly one copy
\* per (extension, configuration table) pair, in catalog order, each
\* selecting the table under its own where-clause into the table of the same
\* name and never truncating it; without createExtensions it sends no
\* CREATE EXTENSION
C20_OneCopyPerConfigTable ==
    NoStepFailed =>
        LET array == extensions.catalog
            copies == CopiesIn(extensions.copy.sql)
        IN  /\ Len(copies) = Cardinality(Pairs(array))
            /\ \A p \in Pairs(array) :
                 LET c == copies[Rank(array, p)]
                     config == array[p[1]].config[p[2]]
                 IN  /\ c.ext = array[p[1]].extname
                     /\ c.qname = <<config.nspname, config.relname>>
                     /\ c.select = c.qname
                     /\ c.where = config.condition
                     /\ ~c.truncate
                     /\ c.ok
            /\ ~extensions.copy.createExtensions =>
                  CreatesIn(extensions.copy.sql) = <<>>
            /\ extensions.copy.ok /\ extensions.copy.finished

\* two extensions with two configuration tables each, of different
\* where-clauses, copied without creating the extensions
C20_Witness ==
    /\ NoStepFailed
    /\ ~extensions.copy.createExtensions
    /\ Len(extensions.catalog) = 2
    /\ \A i \in 1..2 :
         /\ Len(extensions.catalog[i].config) = 2
         /\ extensions.catalog[i].config[1].condition
               # extensions.catalog[i].config[2].condition
    /\ Len(CopiesIn(extensions.copy.sql)) = 4

\* the statements of a call that failed
FailedIn(sql) == {k \in 1..Len(sql) : ~sql[k].ok}

\* every CREATE EXTENSION asked for and every configuration-table copy of
\* the catalog was executed with success
AllSucceeded ==
    LET array == extensions.catalog
        sql == extensions.copy.sql
    IN  /\ extensions.copy.createExtensions =>
              \A i \in 1..Len(array) :
                 \E k \in 1..Len(sql) :
                    /\ sql[k].kind = "create"
                    /\ sql[k].ext = array[i].extname
                    /\ sql[k].ok
        /\ \A p \in Pairs(array) :
              \E k \in 1..Len(sql) :
                 /\ sql[k].kind = "copy"
                 /\ sql[k].qname = <<array[p[1]].config[p[2]].nspname,
                                     array[p[1]].config[p[2]].relname>>
                 /\ sql[k].ok

\* C22 as the specification states it: copydb_copy_extensions returns
\* success if and only if every CREATE EXTENSION and every
\* configuration-table copy succeeded.
C22_SuccessIffAllSucceeded ==
    extensions.copy.by # "none" =>
        (extensions.copy.ok <=> AllSucceeded)

\* C22: copydb_copy_extensions returns success if and only if the
\* connection to the target was opened and every CREATE EXTENSION and every
\* configuration-table copy succeeded.  A failed CREATE EXTENSION is
\* counted and nothing else: unless a copy fails, every extension is still
\* created and every configuration table still copied, in the same order.
\* The first failed copy is the last statement of the call: no later table
\* or extension is processed.
C22_SuccessIffConnectedAndAllSucceeded ==
    extensions.copy.by # "none" =>
        LET array == extensions.catalog
            sql == extensions.copy.sql
            failedCopies == {k \in FailedIn(sql) : sql[k].kind = "copy"}
            failedCreates == {k \in FailedIn(sql) : sql[k].kind = "create"}
        IN  /\ extensions.copy.ok <=>
                  (extensions.copy.o.init /\ AllSucceeded)
            /\ extensions.copy.ok <=>
                  (extensions.copy.o.init /\ FailedIn(sql) = {})
            /\ extensions.copy.errors = Cardinality(failedCreates)
            /\ (extensions.copy.o.init /\ failedCopies = {}) =>
                  /\ Len(CopiesIn(sql)) = Cardinality(Pairs(array))
                  /\ Len(CreatesIn(sql)) =
                        IF extensions.copy.createExtensions
                        THEN Len(array) ELSE 0
                  /\ \A p \in Pairs(array) :
                       CopiesIn(sql)[Rank(array, p)].qname
                          = <<array[p[1]].config[p[2]].nspname,
                              array[p[1]].config[p[2]].relname>>
                  /\ \A i \in 1..Len(CreatesIn(sql)) :
                       CreatesIn(sql)[i].ext = array[i].extname
                  /\ extensions.copy.finished
                  /\ extensions.copy.ok <=> failedCreates = {}
            /\ failedCopies # {} =>
                  /\ failedCopies = {Len(sql)}
                  /\ ~extensions.copy.ok
                  /\ Len(CopiesIn(sql)) = extensions.copy.o.copyFail
            /\ ~extensions.copy.o.init => sql = <<>> /\ ~extensions.copy.ok

\* the CREATE EXTENSION of the first extension failed; its configuration
\* tables and the second extension were processed all the same, and the
\* call reports failure
C22_Witness ==
    /\ extensions.copy.by = "caller"
    /\ extensions.copy.createExtensions
    /\ Len(extensions.catalog) = 2
    /\ \A i \in 1..2 : Len(extensions.catalog[i].config) > 0
    /\ extensions.copy.o.createFail = {1}
    /\ extensions.copy.o.copyFail = 0
    /\ Len(CopiesIn(extensions.copy.sql)) >= 2
    /\ Len(CreatesIn(extensions.copy.sql)) = 2
    /\ ~extensions.copy.ok

\* the first copy failed and the call stopped there, with tables and an
\* extension left
C22_CopyFailureWitness ==
    /\ extensions.copy.by = "caller"
    /\ extensions.copy.createExtensions
    /\ Len(extensions.catalog) = 2
    /\ \A i \in 1..2 : Len(extensions.catalog[i].config) = 2
    /\ extensions.copy.o.copyFail = 1
    /\ Len(extensions.copy.sql) = 2
    /\ ~extensions.copy.ok


----------------------------------------------------------------------------
(* Properties of the live replay applier                                   *)

\* the transactions of the source that the stream carries: those committed
\* after the slot's consistent LSN
Streamed == {c \in source.txns : c > run.slotLSN}

\* the transactions applied and committed on the target by this run
Committed == {target.commits[i] : i \in 1..Len(target.commits)}

\* stream_apply_replay has returned on its normal path: success, and not
\* the early exit
ReturnedNormally == pc = "returned" /\ ret = "true" /\ ~run.early

C5_OneQueryInFlight ==
    /\ srcPending \in {0, 1}
    /\ context.sentinelQueryInProgress <=> srcPending = 1

\* a query was sent, and a later progress point fetched its result
C5_Witness ==
    /\ pc = "reading"
    /\ run.sends >= 1
    /\ srcPending = 0
    /\ cursor.action \in ProgressActions
    /\ context.sentinelSyncTime >= run.sendTime

\* C6: an asynchronous sentinel update is sent only on a COMMIT or a
\* KEEPALIVE line, and only at least one second after sentinelSyncTime,
\* the time recorded when the result of the send before it was fetched, so
\* that two consecutive sends are at least one second apart.
C6_SendsRateLimited ==
    [][srcPending' > srcPending =>
         /\ cursor'.action \in ProgressActions
         /\ now >= context.sentinelSyncTime + 1
         /\ run.sendTime # -1 =>
              /\ context.sentinelSyncTime >= run.sendTime
              /\ now >= run.sendTime + 1]_vars

\* two sends have happened
C6_Witness ==
    /\ run.sends >= 2
    /\ run.sendTime >= context.sentinelSyncTime + 1

C8_StopSemantics ==
    /\ [](stop =>
            /\ \/ run.atCheck.reachedEndPos
               \/ /\ run.atCheck.endpos # 0
                  /\ run.atCheck.endpos <= run.atCheck.previousLSN
            /\ context.reachedEndPos
            /\ target.open = 0
            /\ ~run.endposChanged =>
                 \A c \in Streamed :
                     c <= context.endpos => c \in Committed)
    /\ [][stop =>
            /\ stop'
            /\ cursor' = cursor
            /\ target'.rows = target.rows
            /\ target'.commits = target.commits
            /\ target'.origin = target.origin
            /\ context'.previousLSN = context.previousLSN]_vars

\* the applier stopped right after the commit at endpos
C8_Witness ==
    /\ stop
    /\ pc = "draining"
    /\ cursor.action = "COMMIT"
    /\ cursor.lsn = context.endpos
    /\ cursor.lsn \in Committed
    /\ ~run.atCheck.reachedEndPos

\* C9: when a fetched sentinel result brings endpos down to previousLSN or
\* below, the applier stops at that very line: nothing more is read or
\* applied, and a successful return reports the LSN already replayed, which
\* may lie past the new endpos.  At start-up, the applier reads its input
\* only when endpos is zero or past previousLSN; otherwise it returns
\* success at once, having read nothing.
C9_ReducedEndposStops ==
    /\ [](run.reduced =>
            /\ stop
            /\ pc \in {"draining", "returned"}
            /\ ReturnedNormally =>
                 context.replay_lsn = context.previousLSN)
    /\ [][run.reduced =>
            /\ cursor' = cursor
            /\ target'.rows = target.rows
            /\ target'.commits = target.commits]_vars
    /\ [](run.early =>
            /\ pc = "returned" /\ ret = "true"
            /\ ~run.read
            /\ cursor = NoLine
            /\ Committed = {}
            /\ context.endpos # 0
            /\ context.endpos <= context.previousLSN)
    /\ []((pc = "reading" /\ ~run.read) =>
            \/ context.endpos = 0
            \/ context.endpos > context.previousLSN)

\* endpos came down to the LSN already replayed, and the applier returned
\* success at once with more of the stream left unread
C9_Witness ==
    /\ run.reduced
    /\ ReturnedNormally
    /\ Committed # {}
    /\ context.replay_lsn >= run.atCheck.endpos
    /\ \E c \in Streamed : c > context.replay_lsn

\* the start-up exit
C9_EarlyWitness ==
    /\ run.early
    /\ pc = "returned"
    /\ Streamed # {}

TargetUntouched ==
    /\ target.commits = <<>>
    /\ target.open = 0
    /\ target.origin = run.slotLSN
    /\ \A c \in 1..MaxLSN :
         target.rows[c] = IF c <= run.slotLSN THEN source.rows[c] ELSE 0

\* C12: as long as stream_apply_wait_for_sentinel has not returned success
\* (sentinel.apply seen true), the applier has not set up the replication
\* origin, has read no line and has applied nothing on the target; it can
\* only be at its entry or have returned failure.
C12_NothingBeforeSentinelApply ==
    ~context.apply =>
        /\ pc \in {"entry", "returned"}
        /\ pc = "returned" => ret = "false"
        /\ context.previousLSN = 0
        /\ cursor = NoLine
        /\ ~run.read
        /\ srcPending = 0
        /\ TargetUntouched

\* the wait failed with a stream ready to be replayed
C12_Witness ==
    /\ ~context.apply
    /\ pc = "returned"
    /\ Streamed # {}
    /\ run.slotLSN >= 1


\* C17: the applier keeps the order of the source: the lines are applied in
\* the order read, each once, so that the transactions committed on the
\* target are the streamed ones up to the last one committed, without a
\* gap, in the order of their commit LSN, each with the rows its source
\* transaction inserted; the transaction being applied holds the
\* statements read so far; nothing else of the stream is on the target.
C17_SourceOrder ==
    LET n == Len(target.commits)
    IN  /\ \A i, j \in 1..n : i < j => target.commits[i] < target.commits[j]
        /\ n > 0 => Committed = {c \in Streamed : c <= target.commits[n]}
        /\ \A c \in Committed : target.rows[c] = source.rows[c]
        /\ \A c \in (1..MaxLSN) \ Committed :
             c > run.slotLSN => target.rows[c] = 0
        /\ target.open # 0 =>
             /\ target.open = cursor.lsn
             /\ target.pending = cursor.ins
             /\ \A c \in Committed : c < target.open

\* two transactions with rows were streamed and committed
C17_Witness ==
    /\ Len(target.commits) = 2
    /\ \A c \in Committed : source.rows[c] > 0 /\ target.rows[c] > 0

C19_FinalSyncAfterDrain ==
    /\ run.finalSyncs <= 1
    /\ run.finalSyncs = 1 =>
         /\ pc = "returned"
         /\ ~run.atSync.inProgress
         /\ run.atSync.pending = 0
         /\ run.atSync.open = 0
         /\ ~context.sentinelQueryInProgress
         /\ srcPending = 0
         /\ target.open = 0
         /\ run.syncResult = "failed" => ret = "false"
         /\ run.syncResult = "ok" =>
              /\ ret = "true"
              /\ context.replay_lsn = context.previousLSN
              /\ \A c \in Committed : c <= context.replay_lsn
    /\ (pc = "returned" /\ ret = "true" /\ ~run.early) =>
         run.finalSyncs = 1 /\ run.syncResult = "ok"

\* the input ended after a COMMIT with the asynchronous query in flight; the
\* query was fetched in the loop, and then the last update was made
C19_Witness ==
    /\ run.finalSyncs = 1
    /\ run.syncResult = "ok"
    /\ run.drained
    /\ ~stop
    /\ cursor.action = "COMMIT"
    /\ Committed # {}
    /\ context.replay_lsn = cursor.lsn

\* the input ended, and the last update failed
C19_FailureWitness ==
    /\ run.finalSyncs = 1
    /\ run.syncResult = "failed"
    /\ run.drained
    /\ Committed # {}
    /\ ret = "false"

\* C23: the exit of the applier terminates: once the input has ended or the
\* applier was told to stop, and provided the query in flight is answered
\* in the end, stream_apply_replay leaves the loop on
\* sentinelQueryInProgress and returns; with no query in flight it does not
\* wait at all.
C23_DrainTerminates ==
    (pc = "draining") ~> (pc = "returned")

\* the input ended after a keepalive with a query in flight; the loop
\* fetched its result and the function returned
C23_Witness ==
    /\ pc = "returned"
    /\ ret = "true"
    /\ run.drained
    /\ ~stop
    /\ cursor.action = "KEEPALIVE"
    /\ run.finalSyncs = 1

========================================================================
